---- MODULE Spec2Model ----
(***************************************************************************)
(* A model of the endee-rag-project pipeline: the word-window chunker      *)
(* (ingestion/chunker.py), the ingestion run (main.ingest_documents), the  *)
(* query run (main.query_knowledge_base, retrieval/query_engine.py) and    *)
(* the REST client of the vector store (endee/endee_client.py).            *)
(*                                                                         *)
(* Strings are sequences of one-character strings, so that splitting on    *)
(* whitespace, joining with a space, slicing and truncation are computed   *)
(* and not assumed.                                                        *)
(***************************************************************************)
EXTENDS Integers, Sequences, FiniteSets, TLC

VARIABLES
    \* ---- TextChunker (ingestion/chunker.py)
    chunk_size,     \* self.chunk_size
    overlap,        \* self.overlap
    text,           \* the argument of chunk_text
    words,          \* local: text.split()
    chunks,         \* local: the list being built
    start_idx,      \* local: the window start
    cpc,            \* position in chunk_text: "idle", "call", "loop", "returned"
    result,         \* the value chunk_text returned
    \* ---- main.py: one run of the command line
    cmd,            \* "ingest", "query" (main), "engine" (QueryEngine used directly),
                    \* "chunk" (TextChunker used directly)
    pc,             \* position in ingest_documents / query_knowledge_base / query
    fs,             \* the files under the ingested directory
    dimension,      \* config.EMBEDDING_DIMENSION
    model_dim,      \* the length of the vectors the embedding model produces
    documents,      \* ingest_documents: documents
    doc_idx,        \* chunk_documents: the documents chunked so far
    all_chunks,     \* ingest_documents: chunks
    embeddings,     \* ingest_documents: embeddings
    vectors,        \* ingest_documents: vectors
    i,              \* ingest_documents: the batch loop's offset
    total_inserted, \* ingest_documents: total_inserted
    events,         \* the calls made so far to the store, the embedder and the stages
    ret,            \* what the command's function returned ("pending" before), or
                    \* the exception that left it
    \* ---- QueryEngine (retrieval/query_engine.py)
    question,       \* query: question
    verbose,        \* query: verbose
    client,         \* self.endee_client: "endee" (EndeeClient) or "raising" (a store
                    \* object whose search_vectors raises on a failed call)
    search_results, \* query: search_results
    outcome         \* the dict query returned (the empty function before)

chunkerVars == <<chunk_size, overlap, text, words, chunks, start_idx, cpc, result>>
ingestVars == <<fs, dimension, model_dim, documents, doc_idx, all_chunks, embeddings, vectors,
                i, total_inserted>>
runVars == <<cmd, pc, events, ret>>
queryVars == <<question, verbose, client, search_results, outcome>>

vars == <<chunkerVars, ingestVars, runVars, queryVars>>

----------------------------------------------------------------------------
(* Bounds of the model *)

\* longest text of the exhaustive chunker specification, in characters
MaxTextLen == 7
\* largest chunk_size / overlap tried by the exhaustive chunker specification
MaxChunkSize == 3
\* iterations of the chunk_text loop explored beyond the number of words,
\* for the parameters on which the loop does not end
MaxExtra == 2
\* words of the large document of the ingestion runs
BigWords == 201
\* most words of a text, and largest chunk_size and overlap, of the chunker
\* specification over single-spaced texts
MaxWords == 6
MaxWordChunk == 5

----------------------------------------------------------------------------
(* Strings *)

Min(a, b) == IF a < b THEN a ELSE b
Max(a, b) == IF a > b THEN a ELSE b

\* the characters of the modelled texts; " " is the only whitespace
Letters == {"a", "b"}
Chars == Letters \cup {" "}

IsSpace(c) == c = " "

\* all strings of length at most n over the characters cs
StringsUpTo(cs, n) == UNION {[1..k -> cs] : k \in 0..n}

\* str.strip() = "" : the text is empty or all whitespace
IsBlank(s) == \A k \in 1..Len(s) : IsSpace(s[k])

\* list slicing s[i:j] with Python's treatment of negative and oversized
\* indices (0-based, half-open)
PyIndex(k, n) == IF k < 0 THEN Max(k + n, 0) ELSE Min(k, n)
PySlice(s, from, to) ==
    LET lo == PyIndex(from, Len(s))
        hi == PyIndex(to, Len(s))
    IN  IF lo < hi THEN SubSeq(s, lo + 1, hi) ELSE <<>>

\* str.split(): the maximal runs of non-whitespace characters, in order
IsWordStart(s, k) == ~IsSpace(s[k]) /\ (k = 1 \/ IsSpace(s[k - 1]))
IsWordEnd(s, k) == ~IsSpace(s[k]) /\ (k = Len(s) \/ IsSpace(s[k + 1]))
WordFrom(s, k) ==
    SubSeq(s, k, CHOOSE e \in k..Len(s) :
                    IsWordEnd(s, e) /\ \A m \in k..e : ~IsSpace(s[m]))
\* the words that start at the positions lo..hi (halving keeps the
\* evaluation shallow on long texts)
RECURSIVE SplitRange(_, _, _)
SplitRange(s, lo, hi) ==
    IF lo > hi THEN <<>>
    ELSE IF lo = hi THEN (IF IsWordStart(s, lo) THEN <<WordFrom(s, lo)>> ELSE <<>>)
    ELSE SplitRange(s, lo, (lo + hi) \div 2) \o SplitRange(s, (lo + hi) \div 2 + 1, hi)
Split(s) == SplitRange(s, 1, Len(s))

\* ' '.join(ws)
RECURSIVE JoinRange(_, _, _)
JoinRange(ws, lo, hi) ==
    IF lo > hi THEN <<>>
    ELSE IF lo = hi THEN ws[lo]
    ELSE JoinRange(ws, lo, (lo + hi) \div 2) \o <<" ">>
            \o JoinRange(ws, (lo + hi) \div 2 + 1, hi)
Join(ws) == JoinRange(ws, 1, Len(ws))

----------------------------------------------------------------------------
(* TextChunker.chunk_text *)

\* end_idx = min(start_idx + self.chunk_size, total_words)
WindowEnd(start, cs, total) == Min(start + cs, total)

\* chunk_text = ' '.join(words[start_idx:end_idx])
ChunkAt(ws, start, cs) == Join(PySlice(ws, start, WindowEnd(start, cs, Len(ws))))

\* a window that moves on by chunk_size, the overlap forgotten
NextStartNoOverlap(start, cs, ov) == start + cs

\* a window that moves on one word too far
NextStartOneMore(start, cs, ov) == start + (cs - ov) + 1

\* start_idx += (self.chunk_size - self.overlap)
NextStart(start, cs, ov) == start + (cs - ov)

\* the variables of the command-line run, when no run is modelled
NoRun ==
    /\ fs = {}
    /\ dimension = 0
    /\ model_dim = 0
    /\ documents = <<>>
    /\ doc_idx = 0
    /\ all_chunks = <<>>
    /\ embeddings = <<>>
    /\ vectors = <<>>
    /\ i = 0
    /\ total_inserted = 0
    /\ events = <<>>
    /\ ret = "pending"

\* the variables of QueryEngine, when no query is modelled
NoQuery ==
    /\ question = ""
    /\ verbose = FALSE
    /\ client = "endee"
    /\ search_results = <<>>
    /\ outcome = <<>>

\* TextChunker.__init__ stores its arguments as given
ChunkerInit(cs, ov, s) ==
    /\ chunk_size = cs
    /\ overlap = ov
    /\ text = s
    /\ words = <<>>
    /\ chunks = <<>>
    /\ start_idx = 0
    /\ cpc = "call"
    /\ result = <<>>

\* chunk_text up to the loop: the empty-text and the small-text returns
ChunkTextEnter ==
    /\ UNCHANGED queryVars
    /\ cpc = "call"
    /\ IF text = <<>> \/ IsBlank(text)
       THEN /\ cpc' = "returned"
            /\ result' = <<>>
            /\ UNCHANGED <<words, chunks, start_idx>>
       ELSE /\ words' = Split(text)
            /\ IF Len(Split(text)) <= chunk_size
               THEN /\ cpc' = "returned"
                    /\ result' = <<text>>
                    /\ UNCHANGED <<chunks, start_idx>>
               ELSE /\ cpc' = "loop"
                    /\ chunks' = <<>>
                    /\ start_idx' = 0
                    /\ UNCHANGED result
    /\ UNCHANGED <<chunk_size, overlap, text>>
    /\ UNCHANGED <<ingestVars, runVars>>

\* one test of the while condition and, when it holds, one iteration
ChunkTextIterate ==
    /\ UNCHANGED queryVars
    /\ cpc = "loop"
    /\ Len(chunks) < Len(words) + MaxExtra
    /\ IF start_idx < Len(words)
       THEN /\ chunks' = Append(chunks, ChunkAt(words, start_idx, chunk_size))
            /\ start_idx' = NextStart(start_idx, chunk_size, overlap)
            /\ IF NextStart(start_idx, chunk_size, overlap) >= Len(words)
               THEN /\ cpc' = "returned"
                    /\ result' = Append(chunks, ChunkAt(words, start_idx, chunk_size))
               ELSE UNCHANGED <<cpc, result>>
       ELSE /\ cpc' = "returned"
            /\ result' = chunks
            /\ UNCHANGED <<chunks, start_idx>>
    /\ UNCHANGED <<chunk_size, overlap, text, words>>
    /\ UNCHANGED <<ingestVars, runVars>>

----------------------------------------------------------------------------
(* The chunker alone, on every small text and every small parameter pair *)

Texts == StringsUpTo(Chars, MaxTextLen)
ChunkSizes == 0..MaxChunkSize
Overlaps == (0 - 1)..MaxChunkSize

InitChunk ==
    /\ \E cs \in ChunkSizes, ov \in Overlaps, s \in Texts : ChunkerInit(cs, ov, s)
    /\ cmd = "chunk"
    /\ pc = "chunk_text"
    /\ NoRun
    /\ NoQuery

NextChunk ==
    \/ ChunkTextEnter
    \/ ChunkTextIterate

SpecChunk == InitChunk /\ [][NextChunk]_vars

\* The chunker on longer texts: up to MaxWords one-letter words, one space
\* between them, and the text of 25 words with chunk_size 10 and overlap 2.
WordTexts ==
    {Join(ws) : ws \in UNION {[1..n -> {<<"a">>, <<"b">>}] : n \in 0..MaxWords}}

\* 25 words, no two neighbours within a window alike in position
ExampleText == Join([k \in 1..25 |-> IF k % 3 = 0 THEN <<"a">> ELSE <<"b">>])

InitWords ==
    /\ \/ \E cs \in 0..MaxWordChunk, ov \in 0..MaxWordChunk, s \in WordTexts :
            ChunkerInit(cs, ov, s)
       \/ ChunkerInit(10, 2, ExampleText)
    /\ cmd = "chunk"
    /\ pc = "chunk_text"
    /\ NoRun
    /\ NoQuery

SpecWords == InitWords /\ [][NextChunk]_vars

----------------------------------------------------------------------------
(* TextChunker.chunk_documents *)

\* chunk_info dicts whose text has its whitespace normalised
ChunkInfosNormalised(filename, cs) ==
    [k \in 1..Len(cs) |->
        [filename |-> filename, chunk_id |-> k, chunk_text |-> Join(Split(cs[k])),
         total_chunks |-> Len(cs)]]

\* chunk_info dicts counted by enumerate(chunks), from 0
ChunkInfosFromZero(filename, cs) ==
    [k \in 1..Len(cs) |->
        [filename |-> filename, chunk_id |-> k - 1, chunk_text |-> cs[k],
         total_chunks |-> Len(cs)]]

\* the chunk_info dicts of one document, chunk_id counted from 1
ChunkInfos(filename, cs) ==
    [k \in 1..Len(cs) |->
        [filename |-> filename, chunk_id |-> k, chunk_text |-> cs[k],
         total_chunks |-> Len(cs)]]

\* for filename, content in documents: chunks = self.chunk_text(content)
ChunkDocumentsCall ==
    /\ UNCHANGED queryVars
    /\ pc = "chunk"
    /\ cpc = "idle"
    /\ doc_idx < Len(documents)
    /\ text' = documents[doc_idx + 1][2]
    /\ cpc' = "call"
    /\ words' = <<>>
    /\ chunks' = <<>>
    /\ start_idx' = 0
    /\ result' = <<>>
    /\ UNCHANGED <<chunk_size, overlap, ingestVars, runVars>>

\* the inner loop: the chunk_info dicts of the document join all_chunks
ChunkDocumentsCollect ==
    /\ UNCHANGED queryVars
    /\ pc = "chunk"
    /\ cpc = "returned"
    /\ all_chunks' = all_chunks \o ChunkInfos(documents[doc_idx + 1][1], result)
    /\ doc_idx' = doc_idx + 1
    /\ cpc' = "idle"
    /\ UNCHANGED <<chunk_size, overlap, text, words, chunks, start_idx, result>>
    /\ UNCHANGED <<fs, dimension, model_dim, documents, embeddings, vectors, i,
                   total_inserted, runVars>>

\* after the last document chunk_documents returns all_chunks
ChunkDocumentsReturn ==
    /\ UNCHANGED queryVars
    /\ pc = "chunk"
    /\ cpc = "idle"
    /\ doc_idx = Len(documents)
    /\ events' = Append(events, [op |-> "chunk", ok |-> TRUE])
    /\ pc' = "encode"
    /\ UNCHANGED <<chunkerVars, ingestVars, cmd, ret>>

----------------------------------------------------------------------------
(* DocumentLoader.load_directory *)

\* load_file / _load_text: (path.name, content); the directory is dropped
LoadFile(f) == <<f.name, f.content>>

\* The loads load_directory can return for the files fs: one pass per
\* extension of the SUPPORTED_EXTENSIONS set, each an rglob of the tree; the
\* order of a set's elements and of a directory walk is not fixed, so every
\* order that keeps the files of one extension together is possible.
LoadOrders(files) ==
    {[k \in 1..Cardinality(files) |-> LoadFile(p[k])] :
        p \in {q \in [1..Cardinality(files) -> files] :
                /\ \A a, b \in 1..Cardinality(files) : a # b => q[a] # q[b]
                /\ \A a, b, c \in 1..Cardinality(files) :
                      (a < b /\ b < c /\ q[a].ext = q[c].ext) => q[b].ext = q[a].ext}}

----------------------------------------------------------------------------
(* EmbeddingModel *)

\* The vector of a text: model_dim numbers that depend on the text only
\* (the sentence-transformers model is an external library).
Encode(s, d) == [k \in 1..d |-> Len(s)]

\* encode_batch: one vector per text, in order
EncodeBatch(texts, d) == [k \in 1..Len(texts) |-> Encode(texts[k], d)]

----------------------------------------------------------------------------
(* EndeeClient *)

\* dict.get(key, default)
Get(d, key, default) == IF key \in DOMAIN d THEN d[key] ELSE default

\* insert_vectors: the object posted for one vector
FormatVector(vec) ==
    [id |-> vec.id,
     vector |-> vec.vector,
     meta |-> [text |-> Get(vec.metadata, "chunk_text", <<>>),
               source |-> Get(vec.metadata, "source_file", "")]]

\* insert_vectors: the body of the POST
FormatVectors(vecs) == [k \in 1..Len(vecs) |-> FormatVector(vecs[k])]

----------------------------------------------------------------------------
(* main.ingest_documents *)

\* batch_size = 100
batch_size == 100

\* datetime.now().isoformat(): the reading of the clock, not modelled further
Timestamp == "now"

\* the id of a chunk's vector: f"{filename}_chunk_{chunk_id}"
VectorId(filename, chunk_id) == <<filename, "_chunk_", chunk_id>>

\* vector_obj of one (chunk, embedding) pair
VectorObj(chunk, embedding) ==
    [id |-> VectorId(chunk.filename, chunk.chunk_id),
     vector |-> embedding,
     metadata |-> [source_file |-> chunk.filename,
                   chunk_id |-> chunk.chunk_id,
                   chunk_text |-> chunk.chunk_text,
                   timestamp |-> Timestamp,
                   total_chunks |-> chunk.total_chunks]]

\* the loop over zip(chunks, embeddings)
PrepareVectors(cs, es) ==
    [k \in 1..Min(Len(cs), Len(es)) |-> VectorObj(cs[k], es[k])]

\* vectors[i:i + batch_size]
Batch(vecs, off) == PySlice(vecs, off, off + batch_size)

\* where the loop goes after a batch whose insert succeeded
AfterInsertOk(off) == off + batch_size

\* a loop that tries a failed batch again
AfterInsertFailedRetry(off) == off

\* where the loop goes after a batch whose insert raised (the except clause
\* logs and the for loop continues)
AfterInsertFailed(off) == off + batch_size

\* what health_check returns for the reply of GET /health: True on status
\* 200, False on any other status and on a RequestException
HealthCheck(reply) == reply = "200"

\* where ingest_documents goes after the health check
AfterHealthIngest(healthy) == IF healthy THEN "create" ELSE "returned"

\* where query_knowledge_base goes after the health check
AfterHealthQuery(healthy) == IF healthy THEN "q_encode" ELSE "returned"

\* create_collection on the reply of POST /api/v1/index/create: a 2xx
\* answer and a 409 return a dict, any other failure raises
CreateCollectionReturns(reply) == reply \in {"2xx", "409"}

\* a run that goes on after a failed collection creation
AfterCreateNoReturn(returned) == "load"

\* where ingest_documents goes after create_collection
AfterCreate(returned) == IF returned THEN "load" ELSE "returned"

Event(op, ok) == [op |-> op, ok |-> ok]

\* endee_client.health_check() of either command
Health ==
    /\ UNCHANGED queryVars
    /\ pc = "health"
    /\ \E reply \in {"200", "503", "RequestException"} :
        /\ events' = Append(events, Event("health", HealthCheck(reply)))
        /\ pc' = IF cmd = "ingest" THEN AfterHealthIngest(HealthCheck(reply))
                 ELSE AfterHealthQuery(HealthCheck(reply))
        /\ ret' = IF pc' = "returned" THEN "None" ELSE ret
    /\ UNCHANGED <<chunkerVars, ingestVars, cmd>>

\* endee_client.create_collection(name, dimension) in its try block
CreateCollection ==
    /\ UNCHANGED queryVars
    /\ pc = "create"
    /\ \E reply \in {"2xx", "409", "500", "RequestException"} :
        /\ events' = Append(events, Event("create", CreateCollectionReturns(reply)))
        /\ pc' = AfterCreate(CreateCollectionReturns(reply))
        /\ ret' = IF pc' = "returned" THEN "None" ELSE ret
    /\ UNCHANGED <<chunkerVars, ingestVars, cmd>>

\* document_loader.load_directory(directory) and the "No documents" return
LoadDocuments ==
    /\ UNCHANGED queryVars
    /\ pc = "load"
    /\ \E docs \in LoadOrders(fs) :
        /\ documents' = docs
        /\ events' = Append(events, Event("load", TRUE))
        /\ pc' = IF docs = <<>> THEN "returned" ELSE "chunk"
        /\ ret' = IF docs = <<>> THEN "None" ELSE ret
    /\ UNCHANGED <<chunkerVars, fs, dimension, model_dim, doc_idx, all_chunks,
                   embeddings, vectors, i, total_inserted, cmd>>

\* embedding_model.encode_batch(chunk_texts), then the loop building vectors;
\* an exception of the model is not caught and ends the run
EncodeStage ==
    /\ UNCHANGED queryVars
    /\ pc = "encode"
    /\ \E ok \in BOOLEAN :
        /\ events' = Append(events, Event("encode", ok))
        /\ IF ok
           THEN /\ embeddings' = EncodeBatch([k \in 1..Len(all_chunks) |->
                                                all_chunks[k].chunk_text], model_dim)
                /\ vectors' = PrepareVectors(all_chunks, embeddings')
                /\ i' = 0
                /\ total_inserted' = 0
                /\ pc' = "insert"
                /\ ret' = ret
           ELSE /\ pc' = "raised"
                /\ ret' = "EmbeddingError"
                /\ UNCHANGED <<embeddings, vectors, i, total_inserted>>
    /\ UNCHANGED <<chunkerVars, fs, dimension, model_dim, documents, doc_idx,
                   all_chunks, cmd>>

\* one iteration of the batch loop: insert_vectors posts the batch; the call
\* returns (2xx) or raises (any other status, a RequestException)
InsertBatch ==
    /\ UNCHANGED queryVars
    /\ pc = "insert"
    /\ i < Len(vectors)
    /\ \E ok \in BOOLEAN :
        /\ events' = Append(events,
                [op |-> "insert", ok |-> ok, offset |-> i,
                 body |-> FormatVectors(Batch(vectors, i))])
        /\ total_inserted' = IF ok THEN total_inserted + Len(Batch(vectors, i))
                             ELSE total_inserted
        /\ i' = IF ok THEN AfterInsertOk(i) ELSE AfterInsertFailed(i)
    /\ UNCHANGED <<chunkerVars, fs, dimension, model_dim, documents, doc_idx,
                   all_chunks, embeddings, vectors, cmd, pc, ret>>

\* the end of the batch loop: the closing log lines, and the function returns
\* nothing
IngestReturn ==
    /\ UNCHANGED queryVars
    /\ pc = "insert"
    /\ ~(i < Len(vectors))
    /\ pc' = "returned"
    /\ ret' = "None"
    /\ UNCHANGED <<chunkerVars, ingestVars, cmd, events>>

----------------------------------------------------------------------------
(* EndeeClient.search_vectors *)

\* JSON values carry their type, since the code branches on it
JsonDict(f) == [t |-> "dict", v |-> f]
JsonList(l) == [t |-> "list", v |-> l]
JsonString == [t |-> "str", v |-> <<>>]

\* what requests.post gave: an exception, or a response with a status and a
\* body that is JSON (data) or not
RequestFailed(msg) == [kind |-> "RequestException", status |-> 0, data |-> JsonString, msg |-> msg]
HttpResponse(status, data) == [kind |-> "json", status |-> status, data |-> data, msg |-> ""]
NotJsonResponse(status) == [kind |-> "not_json", status |-> status, data |-> JsonString, msg |-> ""]

\* search_vectors: every failure is logged and answered by the empty list
SearchVectors(resp) ==
    IF resp.kind = "RequestException" THEN <<>>
    ELSE IF resp.status # 200 THEN <<>>
    ELSE IF resp.kind = "not_json" THEN <<>>
    ELSE IF resp.data.t = "dict" THEN Get(resp.data.v, "results", <<>>)
    ELSE IF resp.data.t = "list" THEN resp.data.v
    ELSE <<>>

\* the search call failed: a transport error or timeout, a status other than
\* 200, or a body that is not a result list (not JSON, no "results")
SearchFailed(resp) ==
    \/ resp.kind = "RequestException"
    \/ resp.status # 200
    \/ resp.kind = "not_json"
    \/ resp.data.t = "dict" /\ "results" \notin DOMAIN resp.data.v
    \/ resp.data.t \notin {"dict", "list"}

\* the message of the exception a failed call stands for
FailureMessage(resp) ==
    IF resp.kind = "RequestException" THEN resp.msg
    ELSE IF resp.status # 200 THEN "HTTP error"
    ELSE "malformed response"

\* the call self.endee_client.search_vectors(...): what it returns, or that
\* it raised. EndeeClient never raises; a store that reports its failures does.
SearchCall(kind, resp) ==
    IF kind = "endee"
    THEN [raised |-> FALSE, value |-> SearchVectors(resp), msg |-> ""]
    ELSE IF SearchFailed(resp)
         THEN [raised |-> TRUE, value |-> <<>>, msg |-> FailureMessage(resp)]
         ELSE [raised |-> FALSE, value |-> SearchVectors(resp), msg |-> ""]

----------------------------------------------------------------------------
(* LLMClient.generate_response *)

\* Scores are counted in ten-thousandths. round(x, n) and the format '.2f'
\* round to the nearest multiple of the unit, a tie going to the even one.
RoundTo(x, unit) ==
    LET r == x % unit
        lo == x - r
    IN  IF 2 * r < unit THEN lo
        ELSE IF 2 * r > unit THEN lo + unit
        ELSE IF (lo \div unit) % 2 = 0 THEN lo ELSE lo + unit

FormatHeader == "Based on the knowledge base, here's what I found:\n"
FormatFooter == "\nNote: This answer is compiled directly from the documents in the knowledge base. For more detailed information, please refer to the source documents listed above."

\* the two lines of the idx-th source
FormatSource(idx, source) ==
    << "\n", idx, ". From ", Get(source, "source_file", "unknown"), " (relevance: ",
       RoundTo(Get(source, "similarity_score", 0), 100), "):",
       "   ", Get(source, "chunk_text", <<>>), "\n" >>

RECURSIVE FormatSources(_, _)
FormatSources(sources, idx) ==
    IF idx > Len(sources) THEN <<>>
    ELSE FormatSource(idx, sources[idx]) \o FormatSources(sources, idx + 1)

\* the answer, as the sequence of the pieces the code joins
GenerateResponse(context, query, sources) ==
    <<FormatHeader>>
        \o (IF sources # <<>> THEN FormatSources(sources, 1) ELSE <<"\n", context, "\n">>)
        \o <<FormatFooter>>

----------------------------------------------------------------------------
(* QueryEngine.query *)

\* the length of a source's text preview
PreviewLen == 200

ErrorAnswer == <<"Error: Could not retrieve relevant information from the knowledge base.">>
NoInfoAnswer == <<"I don't have enough information in the knowledge base to answer this question.">>
GenerationErrorAnswer == <<"Error: Could not generate a response.">>

\* the dict returned when the search raised
SearchErrorOutcome(q, msg) ==
    ("query" :> q) @@ ("answer" :> ErrorAnswer) @@ ("sources" :> <<>>) @@ ("error" :> msg)

\* a no-result dict that leaves the question out
NoResultsOutcomeNoQuery(q) ==
    ("answer" :> NoInfoAnswer) @@ ("sources" :> <<>>)

\* the dict returned when the search gave no result
NoResultsOutcome(q) ==
    ("query" :> q) @@ ("answer" :> NoInfoAnswer) @@ ("sources" :> <<>>)

\* a preview that cuts a text of exactly PreviewLen characters too
PreviewFromLen(t) ==
    IF Len(t) >= PreviewLen THEN PySlice(t, 0, PreviewLen) \o <<".", ".", ".">> ELSE t

\* chunk_text[:200] + '...' if len(chunk_text) > 200 else chunk_text
Preview(t) ==
    IF Len(t) > PreviewLen THEN PySlice(t, 0, PreviewLen) \o <<".", ".", ".">> ELSE t

\* the sources_info entry of one search result
SourceInfo(item) ==
    LET metadata == Get(item.v, "metadata", <<>>)
    IN  [source_file |-> Get(metadata, "source_file", "unknown"),
         chunk_id |-> Get(metadata, "chunk_id", 0),
         similarity_score |-> RoundTo(Get(item.v, "score", 0), 10),
         chunk_text |-> Preview(Get(metadata, "chunk_text", <<>>))]

\* sources listed from the last result to the first
SourcesInfoReversed(results) ==
    [k \in 1..Len(results) |-> SourceInfo(results[Len(results) + 1 - k])]

SourcesInfo(results) == [k \in 1..Len(results) |-> SourceInfo(results[k])]

\* context_part of the idx-th result
ContextPart(idx, item) ==
    LET metadata == Get(item.v, "metadata", <<>>)
    IN  <<"[Source ", idx, ": ", Get(metadata, "source_file", "unknown"), "]\n",
          Get(metadata, "chunk_text", <<>>)>>

\* '\n\n'.join(context_parts)
RECURSIVE FullContext(_, _)
FullContext(results, idx) ==
    IF idx > Len(results) THEN <<>>
    ELSE IF idx = Len(results) THEN ContextPart(idx, results[idx])
    ELSE ContextPart(idx, results[idx]) \o <<"\n\n">> \o FullContext(results, idx + 1)

\* the dict returned when the formatter gave nothing
GenerationErrorOutcome(q, v, sources) ==
    ("query" :> q) @@ ("answer" :> GenerationErrorAnswer)
        @@ ("sources" :> IF v THEN sources ELSE <<>>)

\* the dict returned at the end of query
SuccessOutcome(q, v, answer, sources) ==
    IF v
    THEN ("query" :> q) @@ ("answer" :> answer) @@ ("sources" :> sources)
            @@ ("num_sources" :> Len(sources))
    ELSE ("query" :> q) @@ ("answer" :> answer)

\* Step 1: self.embedding_model.encode(question), outside any try block
QueryEncode ==
    /\ pc = "q_encode"
    /\ \E ok \in BOOLEAN :
        /\ events' = Append(events, Event("encode_query", ok))
        /\ pc' = IF ok THEN "q_search" ELSE "raised"
        /\ ret' = IF ok THEN ret ELSE "EmbeddingError"
    /\ UNCHANGED <<chunkerVars, ingestVars, cmd, queryVars>>

\* Step 2: the search in its try block, and the two early returns
QuerySearch(resp) ==
    /\ pc = "q_search"
    /\ LET call == SearchCall(client, resp)
       IN  /\ events' = Append(events,
                    [op |-> "search", ok |-> ~SearchFailed(resp),
                     found |-> Len(call.value)])
           /\ IF call.raised
              THEN /\ outcome' = SearchErrorOutcome(question, call.msg)
                   /\ pc' = "q_returned"
                   /\ UNCHANGED search_results
              ELSE /\ search_results' = call.value
                   /\ IF call.value = <<>>
                      THEN /\ outcome' = NoResultsOutcome(question)
                           /\ pc' = "q_returned"
                      ELSE /\ pc' = "q_assemble"
                           /\ UNCHANGED outcome
    /\ UNCHANGED <<chunkerVars, ingestVars, cmd, ret, question, verbose, client>>

\* Steps 3 to 5: the loop over the results (result.get raises on a result that
\* is no dict, outside any try block), the formatter (None when it failed)
\* and the returned dict
QueryAssemble ==
    /\ pc = "q_assemble"
    /\ IF \E k \in 1..Len(search_results) : search_results[k].t # "dict"
       THEN /\ pc' = "raised"
            /\ ret' = "AttributeError"
            /\ UNCHANGED outcome
       ELSE /\ pc' = "q_returned"
            /\ ret' = ret
            /\ \E formatted \in BOOLEAN :
                outcome' =
                    IF formatted
                    THEN SuccessOutcome(question, verbose,
                            GenerateResponse(FullContext(search_results, 1), question,
                                             SourcesInfo(search_results)),
                            SourcesInfo(search_results))
                    ELSE GenerationErrorOutcome(question, verbose,
                                                SourcesInfo(search_results))
    /\ UNCHANGED <<chunkerVars, ingestVars, cmd, events, question, verbose, client,
                   search_results>>

\* query_knowledge_base after query returned: the result is printed
QueryPrint ==
    /\ cmd = "query"
    /\ pc = "q_returned"
    /\ pc' = "returned"
    /\ ret' = "None"
    /\ UNCHANGED <<chunkerVars, ingestVars, cmd, events, queryVars>>

----------------------------------------------------------------------------
(* The command line: main() runs one command *)

BlankText == <<" ">>
SmallText == <<"a", " ", "b", "b">>
\* two words with whitespace around and a double space between them
PaddedText == <<" ", "a", " ", " ", "b">>
BigText == Join([k \in 1..BigWords |-> IF k % 2 = 1 THEN <<"a">> ELSE <<"b">>])

File(dir, name, ext, content) ==
    [dir |-> dir, name |-> name, ext |-> ext, content |-> content]

\* the directory trees of the ingestion runs: each of three paths absent or
\* holding one of a few contents; two paths share the file name
Trees ==
    {a \cup b \cup c :
        a \in {{}} \cup {{File("a", "doc1.txt", ".txt", t)} : t \in {SmallText, BigText}},
        b \in {{}} \cup {{File("b", "doc1.txt", ".txt", t)} : t \in {SmallText, BlankText}},
        c \in {{}} \cup {{File("a", "doc2.md", ".md", t)} : t \in {SmallText, PaddedText}}}

\* config.CHUNK_SIZE and CHUNK_OVERLAP as set in the environment
Configs == {<<1, 0>>, <<2, 1>>, <<3, 1>>}

\* the embedding dimensions of the runs (EMBEDDING_DIMENSION, and the model's)
Dims == {2, 3}

InitIngest ==
    /\ cmd = "ingest"
    /\ pc = "health"
    /\ \E c \in Configs :
        /\ chunk_size = c[1]
        /\ overlap = c[2]
    /\ text = <<>>
    /\ words = <<>>
    /\ chunks = <<>>
    /\ start_idx = 0
    /\ cpc = "idle"
    /\ result = <<>>
    /\ fs \in Trees
    /\ dimension \in Dims
    /\ model_dim \in Dims
    /\ documents = <<>>
    /\ doc_idx = 0
    /\ all_chunks = <<>>
    /\ embeddings = <<>>
    /\ vectors = <<>>
    /\ i = 0
    /\ total_inserted = 0
    /\ events = <<>>
    /\ ret = "pending"
    /\ NoQuery

\* ---- the inputs of a query

Questions == {"What is X?", ""}

\* a search result with the metadata keys query reads
ResultItem(source, t, score) ==
    JsonDict(("id" :> VectorId(source, 1)) @@ ("score" :> score)
             @@ ("metadata" :> [chunk_text |-> t, source_file |-> source, chunk_id |-> 1]))

\* a search result that is a stored vector as insert_vectors posted it
StoredItem(vec, score) ==
    JsonDict(("id" :> FormatVector(vec).id) @@ ("score" :> score)
             @@ ("meta" :> FormatVector(vec).meta))

SampleVector ==
    VectorObj([filename |-> "doc1.txt", chunk_id |-> 1, chunk_text |-> SmallText,
               total_chunks |-> 1], Encode(SmallText, 2))

\* chunk texts of exactly PreviewLen characters and of one character more
ExactText == [k \in 1..PreviewLen |-> "c"]
OverText == [k \in 1..(PreviewLen + 1) |-> IF k > PreviewLen THEN "d" ELSE "c"]

ResultItems ==
    {ResultItem("doc1.txt", SmallText, 9100),
     ResultItem("doc2.md", BigText, 8126),
     ResultItem("doc3.txt", ExactText, 8500),
     ResultItem("doc3.txt", OverText, 8400),
     StoredItem(SampleVector, 7700),
     JsonString}

\* longest result list of the modelled responses
MaxResults == 2

ResultLists == UNION {[1..k -> ResultItems] : k \in 0..MaxResults}

SearchResponses ==
    {RequestFailed("connection refused"), RequestFailed("read timed out"),
     HttpResponse(500, JsonString), HttpResponse(404, JsonDict(<<>>)),
     NotJsonResponse(200), HttpResponse(200, JsonString),
     HttpResponse(200, JsonDict(<<>>))}
    \cup {HttpResponse(200, JsonDict("results" :> l)) : l \in ResultLists}
    \cup {HttpResponse(200, JsonList(l)) : l \in ResultLists}

NoChunker ==
    /\ chunk_size = 0
    /\ overlap = 0
    /\ text = <<>>
    /\ words = <<>>
    /\ chunks = <<>>
    /\ start_idx = 0
    /\ cpc = "idle"
    /\ result = <<>>

\* main() with the command "query": query_knowledge_base(question)
InitQuery ==
    /\ cmd = "query"
    /\ pc = "health"
    /\ NoChunker
    /\ NoRun
    /\ question \in Questions
    /\ verbose = TRUE
    /\ client = "endee"
    /\ search_results = <<>>
    /\ outcome = <<>>

\* QueryEngine.query(question, verbose) called on an engine built with either
\* kind of store client
InitEngine ==
    /\ cmd = "engine"
    /\ pc = "q_encode"
    /\ NoChunker
    /\ NoRun
    /\ question \in Questions
    /\ verbose \in BOOLEAN
    /\ client \in {"endee", "raising"}
    /\ search_results = <<>>
    /\ outcome = <<>>

Init == InitIngest \/ InitQuery

Next ==
    \/ Health
    \/ CreateCollection
    \/ LoadDocuments
    \/ ChunkDocumentsCall
    \/ ChunkTextEnter
    \/ ChunkTextIterate
    \/ ChunkDocumentsCollect
    \/ ChunkDocumentsReturn
    \/ EncodeStage
    \/ InsertBatch
    \/ IngestReturn
    \/ QueryEncode
    \/ \E resp \in SearchResponses : QuerySearch(resp)
    \/ QueryAssemble
    \/ QueryPrint

Spec == Init /\ [][Next]_vars

NextQuery ==
    \/ QueryEncode
    \/ \E resp \in SearchResponses : QuerySearch(resp)
    \/ QueryAssemble

SpecQuery == InitEngine /\ [][NextQuery]_vars

----------------------------------------------------------------------------
(* Properties *)

LastEvent == events[Len(events)]

\* the embedder failed on the question
EmbedFailed ==
    \E k \in 1..Len(events) : events[k].op = "encode_query" /\ ~events[k].ok

\* the search call of the query failed
SearchHasFailed ==
    Len(events) > 0 /\ LastEvent.op = "search" /\ ~LastEvent.ok

\* C1: when the embedder's encode call fails, query returns an outcome whose
\* answer is an error-class answer and whose sources are empty; it does not
\* raise.
C1_EmbedFailureReturnsErrorOutcome ==
    EmbedFailed =>
        /\ pc # "raised"
        /\ "answer" \in DOMAIN outcome
        /\ outcome["answer"] \in {ErrorAnswer, GenerationErrorAnswer}
        /\ outcome["sources"] = <<>>

\* C2: when the search call fails (transport error, timeout, non-2xx or
\* malformed response), query returns the error-class answer with empty
\* sources and a populated error field, through EndeeClient.search_vectors as
\* well as for a store that raises.
C2_SearchFailureReturnsErrorOutcome ==
    SearchHasFailed =>
        /\ pc = "q_returned"
        /\ outcome["answer"] = ErrorAnswer
        /\ outcome["sources"] = <<>>
        /\ "error" \in DOMAIN outcome

\* C3: a search that succeeds with zero results gives the fixed "insufficient
\* information" answer with empty sources and no error field, and a failed
\* search gives a different outcome.
C3_EmptyResultDistinctFromFailure ==
    /\ (Len(events) > 0 /\ LastEvent.op = "search" /\ LastEvent.ok /\ LastEvent.found = 0)
            => outcome = NoResultsOutcome(question)
    /\ SearchHasFailed => outcome # NoResultsOutcome(question)

\* the precondition of the chunker: chunk_size > overlap >= 0, chunk_size >= 1
ValidParams(cs, ov) == cs > ov /\ ov >= 0 /\ cs >= 1

\* C4: with parameters that violate chunk_size > overlap >= 0 or
\* chunk_size >= 1 no chunk is ever produced and no chunk sequence returned.
C4_InvalidParamsProduceNoChunk ==
    ~ValidParams(chunk_size, overlap) => (chunks = <<>> /\ result = <<>>)

InsertEvents == SelectSeq(events, LAMBDA e : e.op = "insert")

\* the sum of the sizes of the batches whose write succeeded
RECURSIVE InsertedUpTo(_, _)
InsertedUpTo(ins, k) ==
    IF k = 0 THEN 0
    ELSE InsertedUpTo(ins, k - 1) + (IF ins[k].ok THEN Len(ins[k].body) ELSE 0)

FailedBatches == Cardinality({k \in 1..Len(InsertEvents) : ~InsertEvents[k].ok})

\* the batch loop of an ingest run has ended
IngestLoopEnded ==
    cmd = "ingest" /\ pc = "returned" /\ Len(events) > 0 /\ LastEvent.op \in {"encode", "insert"}

\* C5: an ingest run returns a summary {attempted, inserted, failed_batches}:
\* the records built, the total size of the batches written, the number of
\* failed batch writes.
C5_IngestReturnsSummary ==
    IngestLoopEnded =>
        /\ ret # "None"
        /\ ret.attempted = Len(vectors)
        /\ ret.inserted = InsertedUpTo(InsertEvents, Len(InsertEvents))
        /\ ret.failed_batches = FailedBatches

\* C6: every batch of batch_size records is posted exactly once, in list
\* order, whether or not earlier batches failed: the k-th insert is the k-th
\* batch, and at the end of the run every batch has been posted.
C6_EachBatchWrittenOnceInOrder ==
    cmd = "ingest" =>
        /\ \A k \in 1..Len(InsertEvents) :
              /\ InsertEvents[k].offset = (k - 1) * batch_size
              /\ InsertEvents[k].offset < Len(vectors)
              /\ InsertEvents[k].body
                    = FormatVectors(Batch(vectors, (k - 1) * batch_size))
        /\ IngestLoopEnded => Len(InsertEvents) * batch_size >= Len(vectors)

\* a run in which the first batch failed and two more batches were written
C6_Witness ==
    /\ IngestLoopEnded
    /\ Len(InsertEvents) >= 3
    /\ ~InsertEvents[1].ok
    /\ InsertEvents[2].ok

\* the place of a stage in the order of a run
StageRank(op) ==
    CASE op = "health" -> 1
      [] op = "create" -> 2
      [] op = "load" -> 3
      [] op = "chunk" -> 4
      [] op \in {"encode", "encode_query"} -> 5
      [] op \in {"insert", "search"} -> 6

\* C7: the stages of a run are ordered and fail fast: the health check comes
\* first and nothing follows a failed one; in an ingest run collection
\* creation comes second and nothing follows a failed one; chunking,
\* embedding and the inserts come in that order.
C7_StagesOrderedFailFast ==
    \A k \in 1..Len(events) :
        /\ (events[k].op = "health") = (k = 1)
        /\ k > 1 => events[1].ok
        /\ (events[k].op = "create") = (cmd = "ingest" /\ k = 2)
        /\ k > 2 => events[2].ok
        /\ \A j \in 1..(k - 1) :
              \/ StageRank(events[j].op) < StageRank(events[k].op)
              \/ events[j].op = "insert" /\ events[k].op = "insert"

\* an ingest run that returned right after a failed collection creation
C7_Witness ==
    /\ cmd = "ingest"
    /\ pc = "returned"
    /\ Len(events) = 2
    /\ events[1].ok
    /\ ~events[2].ok

\* C8: the ids of the vectors built in one ingest run are pairwise different.
C8_VectorIdsUnique ==
    (cmd = "ingest" /\ pc = "insert" /\ i = 0) =>
        \A a, b \in 1..Len(vectors) : a # b => vectors[a].id # vectors[b].id

\* C9: every vector posted to the collection has the length the collection
\* was created with.
C9_PostedVectorsMatchDimension ==
    \A k \in 1..Len(events) :
        events[k].op = "insert" =>
            \A m \in 1..Len(events[k].body) :
                Len(events[k].body[m].vector) = dimension

\* C10: for valid parameters and a text of W > chunk_size words, the n-th
\* chunk is the space-joined words at offsets [(n-1)*(chunk_size-overlap),
\* min((n-1)*(chunk_size-overlap)+chunk_size, W)), and there is a chunk for
\* exactly the n whose start offset is below W.
C10_ChunkWindows ==
    (cpc = "returned" /\ ValidParams(chunk_size, overlap)
        /\ Len(Split(text)) > chunk_size) =>
        LET ws == Split(text)
            total == Len(ws)
            step == chunk_size - overlap
        IN  /\ Len(result) = Cardinality({n \in 1..total : (n - 1) * step < total})
            /\ \A n \in 1..Len(result) :
                  result[n] = Join(SubSeq(ws, (n - 1) * step + 1,
                                          Min((n - 1) * step + chunk_size, total)))

\* a text cut into three or more overlapping chunks, the last one clipped
C10_Witness ==
    /\ cpc = "returned"
    /\ ValidParams(chunk_size, overlap)
    /\ overlap >= 1
    /\ Len(result) >= 3
    /\ Len(Split(result[Len(result)])) < chunk_size
    /\ \E a, b \in 1..Len(Split(text)) : Split(text)[a] # Split(text)[b]

\* the least integer not below a / b, for b > 0
CeilDiv(a, b) == (a + b - 1) \div b

\* chunk_text returned for valid parameters and a text of more than chunk_size
\* words
ReturnedFromLoop ==
    /\ cpc = "returned"
    /\ ValidParams(chunk_size, overlap)
    /\ Len(Split(text)) > chunk_size

\* C11 as stated: for valid parameters and W > chunk_size words the number
\* of chunks is ceil((W - chunk_size) / (chunk_size - overlap)) + 1.
C11_CountAsStated ==
    ReturnedFromLoop =>
        Len(result) = CeilDiv(Len(Split(text)) - chunk_size, chunk_size - overlap) + 1

\* C11 amended: for valid parameters and W > chunk_size words the number of
\* chunks is ceil(W / (chunk_size - overlap)): the loop goes on until the
\* window start reaches W, not until a window reaches the last word.
C11_ChunkCount ==
    ReturnedFromLoop =>
        Len(result) = CeilDiv(Len(Split(text)), chunk_size - overlap)

\* the text of 25 words cut with chunk_size 10 and overlap 2: four chunks,
\* where the stated formula gives three
C11_Witness ==
    /\ ReturnedFromLoop
    /\ Len(Split(text)) = 25
    /\ chunk_size = 10
    /\ overlap = 2
    /\ Len(result) = 4

\* the words of the k-th returned chunk
ChunkWords(k) == Split(result[k])

\* the last n words of chunk k are the first n words of chunk k + 1
TailIsHead(k, n) ==
    /\ Len(ChunkWords(k)) >= n
    /\ Len(ChunkWords(k + 1)) >= n
    /\ SubSeq(ChunkWords(k), Len(ChunkWords(k)) - n + 1, Len(ChunkWords(k)))
           = SubSeq(ChunkWords(k + 1), 1, n)

\* the stated instance: 25 words, chunk_size 10, overlap 2 give 4 chunks
ExampleGivesFour ==
    (Len(Split(text)) = 25 /\ chunk_size = 10 /\ overlap = 2) => Len(result) = 4

\* C12 as stated: for valid parameters and a text of more than chunk_size
\* words, each chunk has at most chunk_size words and every pair of
\* consecutive chunks, except the pair ending in the last chunk, shares
\* exactly overlap words; 25 words with chunk_size 10, overlap 2 give 4 chunks.
C12_OverlapAsStated ==
    ReturnedFromLoop =>
        /\ \A k \in 1..Len(result) : Len(ChunkWords(k)) <= chunk_size
        /\ \A k \in 1..(Len(result) - 2) : TailIsHead(k, overlap)
        /\ ExampleGivesFour

\* C12 amended: for valid parameters and a text of more than chunk_size
\* words, each chunk has at most chunk_size words and every pair of
\* consecutive chunks shares min(overlap, length of the second chunk) words,
\* the head of the second chunk being the tail of the first; 25 words with
\* chunk_size 10, overlap 2 give 4 chunks.
C12_ChunkOverlap ==
    ReturnedFromLoop =>
        /\ \A k \in 1..Len(result) : Len(ChunkWords(k)) <= chunk_size
        /\ \A k \in 1..(Len(result) - 1) :
               TailIsHead(k, Min(overlap, Len(ChunkWords(k + 1))))
        /\ \A k \in 1..(Len(result) - 1) :
               Len(ChunkWords(k + 1)) >= overlap => Len(ChunkWords(k)) = chunk_size
        /\ ExampleGivesFour

\* a pair of chunks before the last pair whose second chunk is shorter than
\* the overlap, so that the two share fewer than overlap words
C12_Witness ==
    /\ ReturnedFromLoop
    /\ \E k \in 1..(Len(result) - 2) :
           /\ Len(ChunkWords(k + 1)) < overlap
           /\ TailIsHead(k, Len(ChunkWords(k + 1)))

\* chunk_documents takes over the chunks of the document at doc_idx + 1
CollectStep ==
    /\ pc = "chunk"
    /\ cpc = "returned"
    /\ doc_idx' = doc_idx + 1

\* the single chunk_info of a document returned whole
WholeChunk(doc) ==
    [filename |-> doc[1], chunk_id |-> 1, chunk_text |-> doc[2], total_chunks |-> 1]

\* C13 as stated: for every document of W <= chunk_size words chunk_documents
\* returns exactly one chunk for it, whose text is the original text.
C13_OneChunkAsStated ==
    [][(/\ CollectStep
        /\ Len(Split(documents[doc_idx + 1][2])) <= chunk_size)
           => all_chunks' = Append(all_chunks, WholeChunk(documents[doc_idx + 1]))]_vars

\* C13 amended: for every document of 1 <= W <= chunk_size words
\* chunk_documents returns exactly one chunk for it, whose text is the original
\* text, whitespace included; a document without words gets no chunk.
C13_SmallDocumentOneChunk ==
    [][CollectStep =>
          LET doc == documents[doc_idx + 1]
              W == Len(Split(doc[2]))
          IN  /\ (1 <= W /\ W <= chunk_size)
                    => all_chunks' = Append(all_chunks, WholeChunk(doc))
              /\ W = 0 => all_chunks' = all_chunks]_vars

\* chunk_documents has taken over a document of no more than chunk_size
\* words whose text is not its words joined by single spaces
C13_Witness ==
    /\ pc = "chunk"
    /\ cpc = "idle"
    /\ doc_idx >= 1
    /\ Len(all_chunks) >= 1
    /\ LET doc == documents[doc_idx]
       IN  /\ Len(Split(doc[2])) \in 1..chunk_size
           /\ doc[2] # Join(Split(doc[2]))
           /\ all_chunks[Len(all_chunks)] = WholeChunk(doc)

\* C14: the chunks chunk_documents adds for a document carry chunk_id 1..N
\* without gaps or repeats, in the order chunk_text produced them, each with
\* total_chunks N, the number of chunks of that document, and the groups of
\* the documents follow one another in the order of the input documents.
C14_SequenceIndexes ==
    [][CollectStep =>
          LET N == Len(result)
              before == Len(all_chunks)
          IN  /\ Len(all_chunks') = before + N
              /\ SubSeq(all_chunks', 1, before) = all_chunks
              /\ \A k \in 1..N :
                    /\ all_chunks'[before + k].chunk_id = k
                    /\ all_chunks'[before + k].chunk_text = result[k]
                    /\ all_chunks'[before + k].total_chunks = N
                    /\ all_chunks'[before + k].filename = documents[doc_idx + 1][1]]_vars

\* the filenames of the chunk groups of all_chunks, one per group, in order
RECURSIVE GroupFiles(_)
GroupFiles(cs) ==
    IF cs = <<>> THEN <<>>
    ELSE <<cs[1].filename>> \o GroupFiles(SubSeq(cs, cs[1].total_chunks + 1, Len(cs)))

\* chunk_documents is through two documents: the first gave several chunks
\* and the second starts again at chunk_id 1
C14_Witness ==
    /\ pc = "chunk"
    /\ cpc = "idle"
    /\ doc_idx = 2
    /\ Len(all_chunks) >= 3
    /\ all_chunks[1].total_chunks >= 2
    /\ all_chunks[2].chunk_id = 2
    /\ all_chunks[all_chunks[1].total_chunks + 1].chunk_id = 1
    /\ GroupFiles(all_chunks) = <<documents[1][1], documents[2][1]>>

\* query returned an outcome after a search that gave results
ReturnedWithResults ==
    /\ pc = "q_returned"
    /\ search_results # <<>>

\* the metadata and the score of the j-th search result, as query reads them
ResultMetadata(j) == Get(search_results[j].v, "metadata", <<>>)
ResultScore(j) == Get(search_results[j].v, "score", 0)

\* C15 as stated: after a search with a non-empty result sequence the
\* sources of the outcome are as many as the results and the j-th source has
\* the source document, the index and the score of the j-th result.
C15_SourcesAsStated ==
    ReturnedWithResults =>
        /\ "sources" \in DOMAIN outcome
        /\ Len(outcome["sources"]) = Len(search_results)
        /\ \A j \in 1..Len(search_results) :
              /\ outcome["sources"][j].source_file
                     = Get(ResultMetadata(j), "source_file", "unknown")
              /\ outcome["sources"][j].chunk_id = Get(ResultMetadata(j), "chunk_id", 0)
              /\ outcome["sources"][j].similarity_score = ResultScore(j)

\* C15 amended: every outcome of a verbose query whose search gave a
\* non-empty result sequence has as many sources as results, in the order of
\* the results; the j-th source has the source_file and chunk_id of the j-th
\* result's metadata ('unknown' and 0 where the metadata lacks them) and the
\* j-th result's score rounded to three decimals.
C15_SourcesFollowResults ==
    (ReturnedWithResults /\ verbose) =>
        /\ "sources" \in DOMAIN outcome
        /\ Len(outcome["sources"]) = Len(search_results)
        /\ \A j \in 1..Len(search_results) :
              /\ outcome["sources"][j].source_file
                     = Get(ResultMetadata(j), "source_file", "unknown")
              /\ outcome["sources"][j].chunk_id = Get(ResultMetadata(j), "chunk_id", 0)
              /\ outcome["sources"][j].similarity_score = RoundTo(ResultScore(j), 10)

\* a verbose outcome for two results that the store returned with the lower
\* score first: the sources keep that order, the first score rounded
C15_Witness ==
    /\ ReturnedWithResults
    /\ verbose
    /\ Len(search_results) = 2
    /\ ResultScore(1) < ResultScore(2)
    /\ outcome["sources"][1].similarity_score # ResultScore(1)
    /\ outcome["sources"][1].source_file = "doc2.md"
    /\ outcome["sources"][2].source_file = "doc1.txt"

\* the chunk text of the j-th search result, as query reads it
ResultText(j) == Get(ResultMetadata(j), "chunk_text", <<>>)

\* C16: the text preview of every source of an outcome is the chunk text
\* of its result unchanged when that has at most 200 characters, and else the
\* first 200 characters of it followed by the marker "..."; no preview holds
\* more than 200 characters of chunk text.
C16_PreviewTruncation ==
    (pc = "q_returned" /\ "sources" \in DOMAIN outcome) =>
        \A j \in 1..Len(outcome["sources"]) :
            LET t == ResultText(j)
                p == outcome["sources"][j].chunk_text
            IN  /\ Len(t) <= PreviewLen => p = t
                /\ Len(t) > PreviewLen =>
                      /\ Len(p) = PreviewLen + 3
                      /\ SubSeq(p, 1, PreviewLen) = SubSeq(t, 1, PreviewLen)
                      /\ SubSeq(p, PreviewLen + 1, PreviewLen + 3) = <<".", ".", ".">>

\* an outcome with a source of exactly 200 characters, kept whole, and one
\* of 201 characters, cut to 200 and marked
C16_Witness ==
    /\ pc = "q_returned"
    /\ "sources" \in DOMAIN outcome
    /\ Len(outcome["sources"]) = 2
    /\ Len(ResultText(1)) = PreviewLen
    /\ outcome["sources"][1].chunk_text = ResultText(1)
    /\ Len(ResultText(2)) = PreviewLen + 1
    /\ Len(outcome["sources"][2].chunk_text) = PreviewLen + 3
    /\ outcome["sources"][2].chunk_text # ResultText(2)

\* every outcome holds the question as it was asked and an answer
QuestionAndAnswer ==
    /\ "query" \in DOMAIN outcome
    /\ outcome["query"] = question
    /\ "answer" \in DOMAIN outcome
    /\ outcome["answer"] # <<>>

\* the outcome is the one of the last lines of query, not an early return
SuccessPath ==
    /\ search_results # <<>>
    /\ outcome["answer"] # GenerationErrorAnswer

\* C17 as stated: every outcome query returns, on every path, holds the
\* question unchanged and an answer, and whenever verbose is set also the
\* sources together with their count.
C17_PackagingAsStated ==
    pc = "q_returned" =>
        /\ QuestionAndAnswer
        /\ verbose => ("sources" \in DOMAIN outcome /\ "num_sources" \in DOMAIN outcome)

\* C17 amended: every outcome query returns, on every path, holds the
\* question unchanged and an answer; whenever verbose is set it also holds the
\* sources; the count of the sources is part of the outcome only on the
\* success path of a verbose query, where it is the number of sources.
C17_ResultPackaging ==
    pc = "q_returned" =>
        /\ QuestionAndAnswer
        /\ verbose => "sources" \in DOMAIN outcome
        /\ "num_sources" \in DOMAIN outcome <=> (verbose /\ SuccessPath)
        /\ "num_sources" \in DOMAIN outcome
              => outcome["num_sources"] = Len(outcome["sources"])

\* a verbose query with a question whose search gave no result: the outcome
\* holds the question, an answer and empty sources, and no count
C17_Witness ==
    /\ pc = "q_returned"
    /\ verbose
    /\ question # ""
    /\ search_results = <<>>
    /\ outcome["query"] = question
    /\ outcome["answer"] = NoInfoAnswer
    /\ outcome["sources"] = <<>>
    /\ "num_sources" \notin DOMAIN outcome

\* the j-th search result is the record of SampleVector as insert_vectors
\* posted it
IsStoredRecord(j) ==
    /\ search_results[j].v["id"] = FormatVector(SampleVector).id
    /\ "meta" \in DOMAIN search_results[j].v
    /\ search_results[j].v["meta"] = FormatVector(SampleVector).meta

\* C18: when the store returns a record as insert_vectors sent it, for a
\* chunk ingested with source file S and chunk text T, the source query
\* reports for it has source_file S and a preview taken from T, not the
\* defaults 'unknown' and the empty text.
C18_IngestQueryRoundTrip ==
    (ReturnedWithResults /\ verbose) =>
        \A j \in 1..Len(outcome["sources"]) :
            IsStoredRecord(j) =>
                /\ outcome["sources"][j].source_file = SampleVector.metadata.source_file
                /\ outcome["sources"][j].chunk_text = Preview(SampleVector.metadata.chunk_text)

\* C19: chunk_text terminates for every chunk_size and overlap that the
\* constructor accepts: each iteration of the loop, which appends one chunk,
\* moves the window start strictly forward, so that it reaches the number of
\* words after finitely many chunks.
C19_WindowStartIncreases ==
    [][(cpc = "loop" /\ chunks' # chunks) => start_idx' > start_idx]_vars

====
